---- MODULE Spec2Model ----
(***************************************************************************)
(* The adaptive assessment session controller: the AssessmentProvider      *)
(* (contexts/AssessmentContext.js) together with the reading Assessment    *)
(* page that drives it (handleSubmit, handleFinalSubmit, the start effect  *)
(* and the countdown effect).  React state is modelled as the committed    *)
(* state between macrotasks; every async function is cut at its awaits, a  *)
(* pending call being a record of `inflight` that carries the values the   *)
(* closure captured when the call was made.                                *)
(***************************************************************************)
EXTENDS Integers, Sequences, FiniteSets, Bags, TLC

\* ------------------------------------------------------------------ bounds
MaxInFlight == 2        \* axios calls pending together when a submission is made
MaxStarts == 3          \* axios calls pending together when a start call is made
MaxResponses == 2       \* length of the response history
MaxAuthCalls == 2       \* axios calls of the auth provider pending together
MaxRecorded == 61       \* seconds of recording the recorder is followed for
MaxClock == 2           \* clock advances in one behaviour
ClockStep == 120000     \* milliseconds per clock advance

\* ------------------------------------------------------- program constants
TimeLimit == 120        \* seconds per question
MsPerSecond == 1000     \* Date.now() is in milliseconds
DefaultTotal == 15      \* progress?.total || 15
PrepSeconds == 30       \* useState(30) of prepTime
RecordingLimit == 60    \* "Maximum recording time: 60 seconds"
StartOfTime == 1000     \* Date.now() when the application loads (never 0)

MaxNow == StartOfTime + MaxClock * ClockStep

SessionIds == {"a1", "a2"}
Options == <<"A", "B">>
Choices == {Options[2]}     \* the option the user picks when picking one

\* ------------------------------------------------------------------ values
NoSession == [tag |-> "null"]
NoQuestion == [tag |-> "null"]
NoTime == 0             \* questionStartTime = null

Question(i) == [tag |-> "question", id |-> i, options |-> Options]
\* A question the service sends without options (options is optional in a
\* question; the page renders the choices only when it is there).
QuestionWithoutOptions(i) == [tag |-> "question", id |-> i, options |-> <<>>]

\* What the service presents: the questions of a session are numbered, question k
\* comes with progress {k, total}, and the last one is question `total`.
Presentations ==
  {[question |-> Question("q1"), progress |-> [current |-> 1, total |-> 2]],
   [question |-> Question("q2"), progress |-> [current |-> 2, total |-> 2]]}
NoPresentation == [question |-> NoQuestion, progress |-> [current |-> 0, total |-> 0]]

QId(q) == IF q = NoQuestion THEN "undefined" ELSE q.id

Max(a, b) == IF a > b THEN a ELSE b

VARIABLES
  currentAssessment,  \* provider: the session, or NoSession
  currentQuestion,    \* provider: the current question, or NoQuestion
  responses,          \* provider: the response history
  loading,            \* provider: the loading flag
  selectedOption,     \* page: the selected option, "" when none
  responseTime,       \* page: seconds computed by the last tick
  isSubmitting,       \* page: the re-entrancy flag
  timeRemaining,      \* page: seconds left
  questionStartTime,  \* page: the arm timestamp (ms), NoTime when null
  textResponse,       \* page: the text typed, "" when none
  imageFile,          \* page: whether an image is attached
  type,               \* router: the :type parameter of the assessment route
  route,              \* router: which page is mounted
  now,                \* Date.now()
  inflight,           \* the pending axios calls
  recorder,           \* AudioRecorder: the state of the mounted recorder
  auth,               \* AuthProvider: user, token, localStorage and its calls
  lastOp,             \* history: the operation that produced this state
  issued              \* history: what happened to the question on screen

vars == <<currentAssessment, currentQuestion, responses, loading, selectedOption,
          responseTime, isSubmitting, timeRemaining, questionStartTime,
          textResponse, imageFile, type, route, now, inflight, recorder, auth,
          lastOp, issued>>

\* What an async operation resolves with: {success, completed}; NoResult while
\* it has not returned.
Result(success, completed) ==
  [returned |-> TRUE, success |-> success, completed |-> completed]
NoResult == [returned |-> FALSE, success |-> FALSE, completed |-> FALSE]

\* The state as one record, so that a handler is a function from state to state.
Cur ==
  [currentAssessment |-> currentAssessment, currentQuestion |-> currentQuestion,
   responses |-> responses, loading |-> loading, selectedOption |-> selectedOption,
   responseTime |-> responseTime, isSubmitting |-> isSubmitting,
   timeRemaining |-> timeRemaining, questionStartTime |-> questionStartTime,
   textResponse |-> textResponse, imageFile |-> imageFile, type |-> type,
   route |-> route, now |-> now, inflight |-> inflight, recorder |-> recorder,
   issued |-> issued, overflow |-> FALSE, result |-> NoResult]

Mounted(s) == s.route = "assessment"

\* What the page shows: the spinner while loading, "Assessment not found" without
\* a session or a question, else the question with one of the two buttons.
QuestionShown(s) ==
  /\ Mounted(s)
  /\ ~s.loading
  /\ s.currentAssessment # NoSession
  /\ s.currentQuestion # NoQuestion

\* The recorder as it mounts: 30 seconds of preparation, nothing recorded.
\* stopping says that MediaRecorder.stop() was called and onstop has not run.
NewRecorder ==
  [isPreparing |-> TRUE, prepTime |-> PrepSeconds, isRecording |-> FALSE,
   isPaused |-> FALSE, recordingTime |-> 0, audioBlob |-> FALSE,
   stopping |-> FALSE]

\* The auth provider once mounted without a token in localStorage: no user, no
\* token, nothing pending.  stored is the token item of localStorage.
NoToken == "null"
NoUser == "null"
SignedOut ==
  [user |-> NoUser, token |-> NoToken, stored |-> NoToken, loading |-> FALSE,
   calls |-> EmptyBag, overflow |-> FALSE]

\* The page renders <AudioRecorder> with the question of a speaking assessment;
\* behind the spinner or the error screen the recorder is unmounted.
RecorderShown(s) == QuestionShown(s) /\ s.type = "speaking"

\* The handler's result s is evaluated once and becomes the next state.
Commit(s, op) ==
  \E t \in {s} :
    /\ ~t.overflow
    /\ currentAssessment' = t.currentAssessment
    /\ currentQuestion' = t.currentQuestion
    /\ responses' = t.responses
    /\ loading' = t.loading
    /\ selectedOption' = t.selectedOption
    /\ responseTime' = t.responseTime
    /\ isSubmitting' = t.isSubmitting
    /\ timeRemaining' = t.timeRemaining
    /\ questionStartTime' = t.questionStartTime
    /\ textResponse' = t.textResponse
    /\ imageFile' = t.imageFile
    /\ type' = t.type
    /\ route' = t.route
    /\ now' = t.now
    /\ inflight' = t.inflight
    /\ recorder' = IF RecorderShown(t) THEN t.recorder ELSE NewRecorder
    /\ auth' = auth
    /\ issued' = t.issued
    /\ lastOp' = [op EXCEPT !.result = t.result]

\* What the last step did: the operation, the axios call whose reply it handled
\* and whether that reply was a success, the result the operation resolved with
\* (filled in by Commit), whether the reply was stale, whether the page instance
\* that awaited it was still mounted, and what the reply carried: its question,
\* its assessment_id, its progress and its completed flag.
Op(name, call, ok, stale, page, q) ==
  [op |-> name, call |-> call, ok |-> ok, result |-> NoResult, stale |-> stale,
   page |-> page, question |-> q, id |-> "undefined",
   progress |-> NoPresentation.progress, completed |-> FALSE]
Plain(name) == Op(name, "none", FALSE, FALSE, FALSE, NoQuestion)
Replied(name, ok, r, q) == Op(name, r.op, ok, r.stale, r.page, q)
Carrying(op, id, p, completed) ==
  [op EXCEPT !.id = id, !.progress = p, !.completed = completed]

\* Nothing has happened yet to the question on screen: no submission of it was
\* triggered by a click or by the countdown, no next call for it has failed, and
\* no uploadAudioResponse for it has failed.
NoIssued == [click |-> FALSE, timer |-> FALSE, nextFailed |-> FALSE,
             uploadFailed |-> FALSE]

\* ------------------------------------------------------------ the requests
\* A pending axios call.  sid is currentAssessment.id as the calling closure saw
\* it; page tells whether the page instance that awaits the result is still
\* mounted; stale tells whether resetAssessment ran, or another session replaced
\* the one the call was made for, after the call was issued.
Request(op, sid, qid, data) ==
  [op |-> op, sid |-> sid, questionId |-> qid, data |-> data,
   page |-> TRUE, stale |-> FALSE]

NoData == [response_text |-> ""]

\* The pending calls are a bag: two calls may carry the same values.
Pending(s) == BagToSet(s.inflight)
One(r) == SetToBag({r})

\* Every pending call r changed to f[r].
RECURSIVE Copies(_, _)
Copies(b, S) ==
  IF S = {} THEN 0
  ELSE LET r == CHOOSE x \in S : TRUE IN CopiesIn(r, b) + Copies(b, S \ {r})

MapBag(b, f) ==
  [x \in {f[r] : r \in BagToSet(b)} |-> Copies(b, {r \in BagToSet(b) : f[r] = x})]

\* axios.post / axios.get: the call is now pending.  The start calls have a
\* bound of their own: the start effect makes them in pairs.
Issue(s, op, sid, qid, data) ==
  IF BagCardinality(s.inflight) >= (IF op = "start" THEN MaxStarts ELSE MaxInFlight)
    THEN [s EXCEPT !.overflow = TRUE]
  ELSE [s EXCEPT !.inflight = @ (+) One(Request(op, sid, qid, data))]

Drop(s, r) == [s EXCEPT !.inflight = @ (-) One(r)]

\* ------------------------------------------------------------ the provider
\* startAssessment up to its await.
startAssessment(s) ==
  Issue([s EXCEPT !.loading = TRUE], "start", "undefined", "undefined", NoData)

\* prev => ({...prev, progress: p})
SpreadProgress(prev, p) ==
  IF prev = NoSession
    THEN [tag |-> "session", id |-> "undefined", type |-> "undefined", progress |-> p]
    ELSE [prev EXCEPT !.progress = p]

\* {current: prev?.progress?.total || 0, total: prev?.progress?.total || 0}
TotalProgress(prev) ==
  LET t == IF prev = NoSession THEN 0 ELSE prev.progress.total
  IN [current |-> t, total |-> t]

\* setCurrentQuestion(null); setCurrentAssessment(prev => ...progress at total)
MarkCompleted(s) ==
  [s EXCEPT !.currentQuestion = NoQuestion,
            !.currentAssessment = SpreadProgress(@, TotalProgress(@))]

\* setCurrentQuestion(question); setCurrentAssessment(prev => ...progress)
PresentNext(s, q, p) ==
  [s EXCEPT !.currentQuestion = q,
            !.currentAssessment = SpreadProgress(@, p),
            !.issued = NoIssued]

\* const newResponse = {id, questionId, ...responseData, is_correct, feedback}
NewResponse(qid, data) ==
  [questionId |-> qid, response_text |-> data.response_text]

\* A setResponses that keeps the newest entry only.
KeepNewestResponse(s, qid, data) ==
  [s EXCEPT !.responses = <<NewResponse(qid, data)>>]

\* setResponses(prev => [...prev, newResponse])
AppendResponse(s, qid, data) ==
  [s EXCEPT !.responses = Append(@, NewResponse(qid, data))]

\* A resetAssessment that forgets to empty the history.
resetAssessmentKeepingHistory(s) ==
  [s EXCEPT !.currentAssessment = NoSession, !.currentQuestion = NoQuestion]

\* resetAssessment
resetAssessment(s) ==
  [s EXCEPT !.currentAssessment = NoSession,
            !.currentQuestion = NoQuestion,
            !.responses = <<>>]

\* ---------------------------------------------------------------- the page
PageInit(s) ==
  [s EXCEPT !.selectedOption = "", !.responseTime = 0, !.isSubmitting = FALSE,
            !.timeRemaining = TimeLimit, !.questionStartTime = NoTime,
            !.textResponse = "", !.imageFile = FALSE]

\* The page instance goes away: its state is dropped and the calls it awaits
\* lose their page.
Unmount(s) ==
  IF ~Mounted(s) THEN s
  ELSE LET Orphan == [r \in Pending(s) |-> [r EXCEPT !.page = FALSE]]
       IN [PageInit(s) EXCEPT !.inflight = MapBag(@, Orphan)]

\* navigate(path)
Navigate(s, to) == [Unmount(s) EXCEPT !.route = to]

\* A start effect that leaves the response time of the question before.
StartEffectKeepingResponseTime(s) ==
  LET s1 == IF s.currentAssessment = NoSession THEN startAssessment(s) ELSE s
  IN IF s.currentQuestion # NoQuestion
       THEN [s1 EXCEPT !.timeRemaining = TimeLimit, !.questionStartTime = s.now]
       ELSE s1

\* The start effect, deps [currentAssessment, currentQuestion, type,
\* startAssessment, navigate].
StartEffect(s) ==
  LET s1 == IF s.currentAssessment = NoSession THEN startAssessment(s) ELSE s
  IN IF s.currentQuestion # NoQuestion
       THEN [s1 EXCEPT !.responseTime = 0, !.timeRemaining = TimeLimit,
                       !.questionStartTime = s.now]
       ELSE s1

\* The effect on currentQuestion?.id.
ClearSelectionEffect(prev, s) ==
  IF QId(prev.currentQuestion) # QId(s.currentQuestion)
    THEN [s EXCEPT !.selectedOption = ""] ELSE s

ProviderState(s) == <<s.currentAssessment, s.currentQuestion, s.responses, s.loading>>

\* React re-renders after the handler: the provider renders again when one of its
\* states was set to a new value (fresh says a setter was given a new object),
\* every provider render hands the page a new startAssessment, and so the start
\* effect of a mounted page runs again, until nothing changes.
RECURSIVE Render(_, _, _)
Render(prev, s, fresh) ==
  IF ~Mounted(s) \/ s.overflow THEN s
  ELSE LET e == ClearSelectionEffect(prev, s)
       IN IF fresh \/ ProviderState(prev) # ProviderState(s)
            THEN Render(e, StartEffect(e), FALSE)
            ELSE e

\* History: a respond request was issued for the question on screen.
NoteIssued(s, trigger) ==
  IF trigger = "timer" THEN [s EXCEPT !.issued.timer = TRUE]
  ELSE [s EXCEPT !.issued.click = TRUE]

\* handleSubmit from `const result = await submitResponse(...)` on: r is the call
\* that resolved.  The setters of a page instance that is gone do nothing;
\* navigate works all the same.
AfterSubmit(s, r, result) ==
  LET s1 == [s EXCEPT !.result = result]
  IN IF result.completed THEN Navigate(s1, "results")
     ELSE IF r.page
       THEN [s1 EXCEPT !.selectedOption = "", !.textResponse = "",
                       !.imageFile = FALSE, !.timeRemaining = TimeLimit,
                       !.questionStartTime = s.now, !.isSubmitting = FALSE]
       ELSE s1

\* handleSubmit up to its await; c is the render whose closure it is.
\* currentQuestion.options?.[0]: undefined when the question has no options
FirstOption(q) == IF q.options = <<>> THEN "undefined" ELSE q.options[1]

\* textResponse || "No response provided"
NoResponse == "No response provided"
TextOrNoResponse(c) == IF c.textResponse = "" THEN NoResponse ELSE c.textResponse

\* responseData.response_text: by the selected option for a multiple-choice
\* question, by the text for a writing or a speaking question (the questions of
\* a session have the type of the session).
ResponseText(c) ==
  IF c.type = "reading"
    THEN IF c.selectedOption = "" THEN FirstOption(c.currentQuestion)
         ELSE c.selectedOption
    ELSE TextOrNoResponse(c)

handleSubmit(s, c, trigger) ==
  IF c.isSubmitting \/ c.currentQuestion = NoQuestion THEN s
  ELSE LET data == [response_text |-> ResponseText(c),
                    response_time |-> c.responseTime]
           s1 == [s EXCEPT !.isSubmitting = TRUE]
       IN IF c.currentAssessment = NoSession
            \* currentAssessment.id throws inside the try of submitResponse
            THEN AfterSubmit([s1 EXCEPT !.loading = FALSE], [page |-> TRUE],
                             Result(FALSE, FALSE))
            ELSE NoteIssued(Issue([s1 EXCEPT !.loading = TRUE], "respond",
                                  c.currentAssessment.id, c.currentQuestion.id,
                                  data), trigger)

\* handleFinalSubmit up to its await.
handleFinalSubmit(s) ==
  IF s.currentAssessment = NoSession THEN s
  ELSE Issue([s EXCEPT !.isSubmitting = TRUE, !.loading = TRUE], "submit",
             s.currentAssessment.id, "undefined", NoData)

\* handleFinalSubmit from `const res = await submitAssessment(...)` on.
AfterFinalSubmit(s, r, res) ==
  LET s1 == [s EXCEPT !.result = res]
      s2 == IF r.page THEN [s1 EXCEPT !.isSubmitting = FALSE] ELSE s1
  IN IF res.success THEN Navigate(s2, "results") ELSE s2

\* progress?.current >= (progress?.total || 15)
FinalShown(s) ==
  LET p == s.currentAssessment.progress
  IN p.current >= (IF p.total # 0 THEN p.total ELSE DefaultTotal)

\* Math.floor((Date.now() - questionStartTime) / 1000)
Elapsed(s) == (s.now - s.questionStartTime) \div MsPerSecond

\* The countdown effect arms its interval.
Armed(s) == Mounted(s) /\ s.questionStartTime # NoTime /\ ~s.isSubmitting

\* An interval callback that counts its own runs as the seconds elapsed.
tickCounting(s) ==
  LET elapsed == s.responseTime + 1
      s1 == [s EXCEPT !.responseTime = elapsed,
                      !.timeRemaining = Max(0, TimeLimit - elapsed)]
  IN IF elapsed >= TimeLimit THEN handleSubmit(s1, s, "timer") ELSE s1

\* An interval callback that submits only once the limit has been passed.
tickAfterLimit(s) ==
  LET elapsed == Elapsed(s)
      s1 == [s EXCEPT !.responseTime = elapsed,
                      !.timeRemaining = Max(0, TimeLimit - elapsed)]
  IN IF elapsed > TimeLimit THEN handleSubmit(s1, s, "timer") ELSE s1

\* One run of the interval callback.
tick(s) ==
  LET elapsed == Elapsed(s)
      s1 == [s EXCEPT !.responseTime = elapsed,
                      !.timeRemaining = Max(0, TimeLimit - elapsed)]
  IN IF elapsed >= TimeLimit THEN handleSubmit(s1, s, "timer") ELSE s1

\* --------------------------------------------------- replies of the service
\* submitResponse from the reply of respond on (lines 72-133), with the finally
\* and the caller's continuation when the function returns here.  It keeps
\* running to the next await when next_question_available.
RespondReplied(s, r, nqa, completed) ==
  LET s1 == AppendResponse(s, r.questionId, r.data)
  IN IF nqa
       THEN [s1 EXCEPT !.inflight = (@ (-) One(r)) (+) One([r EXCEPT !.op = "next"])]
       ELSE LET s2 == [Drop(s1, r) EXCEPT !.loading = FALSE]
            IN IF completed
                 THEN AfterSubmit(MarkCompleted(s2), r, Result(TRUE, TRUE))
                 ELSE AfterSubmit(s2, r, Result(TRUE, FALSE))

\* submitResponse from the reply of next on (lines 95-118).
NextReplied(s, r, completed, q, p) ==
  LET s1 == [Drop(s, r) EXCEPT !.loading = FALSE]
  IN IF completed THEN AfterSubmit(MarkCompleted(s1), r, Result(TRUE, TRUE))
     ELSE IF q # NoQuestion THEN AfterSubmit(PresentNext(s1, q, p), r, Result(TRUE, FALSE))
     ELSE AfterSubmit([s1 EXCEPT !.currentQuestion = NoQuestion], r, Result(TRUE, TRUE))

\* A submitResponse that had recorded the answer before the service accepted it.
SubmitFailedAfterRecording(s, r) ==
  AfterSubmit([Drop(AppendResponse(s, r.questionId, r.data), r) EXCEPT
                 !.loading = FALSE], r, Result(FALSE, FALSE))

\* The catch and finally of submitResponse, and the caller's continuation.
SubmitFailed(s, r) ==
  AfterSubmit([Drop(s, r) EXCEPT !.loading = FALSE], r, Result(FALSE, FALSE))

\* A startAssessment that keeps the history of the session before.
StartRepliedKeepingHistory(s, r, id, q, p) ==
  [Drop(s, r) EXCEPT
     !.currentAssessment = [tag |-> "session", id |-> id, type |-> s.type,
                            progress |-> p],
     !.currentQuestion = q,
     !.loading = FALSE,
     !.result = Result(TRUE, FALSE)]

\* startAssessment from the reply on (lines 44-54, 59-61).
StartReplied(s, r, id, q, p) ==
  [Drop(s, r) EXCEPT
     !.currentAssessment = [tag |-> "session", id |-> id, type |-> s.type,
                            progress |-> p],
     !.currentQuestion = q,
     !.responses = <<>>,
     !.loading = FALSE,
     !.result = Result(TRUE, FALSE)]

\* The catch and finally of startAssessment.
StartFailed(s, r) ==
  [Drop(s, r) EXCEPT !.loading = FALSE, !.result = Result(FALSE, FALSE)]

\* submitAssessment from the reply on, and the caller's continuation.
SubmitReplied(s, r) ==
  AfterFinalSubmit([Drop(s, r) EXCEPT !.loading = FALSE], r, Result(TRUE, FALSE))

\* The catch and finally of submitAssessment, and the caller's continuation.
FinalSubmitFailed(s, r) ==
  AfterFinalSubmit([Drop(s, r) EXCEPT !.loading = FALSE], r, Result(FALSE, FALSE))

\* History: the calls made for another session than the one now set are stale.
Replaced(s, id) ==
  LET Mark == [r \in Pending(s) |->
                IF r.op # "start" /\ r.sid # id THEN [r EXCEPT !.stale = TRUE] ELSE r]
  IN [s EXCEPT !.inflight = MapBag(@, Mark), !.issued = NoIssued]

\* History: the next call for the question on screen has failed.
NextFailedNoted(s, r) ==
  IF /\ s.currentAssessment # NoSession
     /\ s.currentAssessment.id = r.sid
     /\ QId(s.currentQuestion) = r.questionId
    THEN [s EXCEPT !.issued.nextFailed = TRUE] ELSE s

\* History: uploadAudioResponse has failed for the question on screen.
UploadFailedNoted(s, r) ==
  IF /\ s.currentAssessment # NoSession
     /\ s.currentAssessment.id = r.sid
     /\ QId(s.currentQuestion) = r.questionId
    THEN [s EXCEPT !.issued.uploadFailed = TRUE] ELSE s

\* History: resetAssessment makes every pending call stale.
Abandoned(s) ==
  LET Mark == [r \in Pending(s) |-> [r EXCEPT !.stale = TRUE]]
  IN [s EXCEPT !.inflight = MapBag(@, Mark), !.issued = NoIssued]

\* ----------------------------------------------------------------- actions
Init ==
  /\ currentAssessment = NoSession
  /\ currentQuestion = NoQuestion
  /\ responses = <<>>
  /\ loading = FALSE
  /\ selectedOption = ""
  /\ responseTime = 0
  /\ isSubmitting = FALSE
  /\ timeRemaining = TimeLimit
  /\ questionStartTime = NoTime
  /\ textResponse = ""
  /\ imageFile = FALSE
  /\ type = "reading"
  /\ route = "dashboard"
  /\ now = StartOfTime
  /\ inflight = EmptyBag
  /\ recorder = NewRecorder
  /\ auth = SignedOut
  /\ lastOp = Plain("init")
  /\ issued = NoIssued

\* The user opens /assessment/reading: the page mounts and its effects run.
EnterPage ==
  /\ ~Mounted(Cur)
  /\ LET s == [Cur EXCEPT !.route = "assessment"]
     IN Commit(Render(s, s, TRUE), Plain("other"))

\* The user leaves through the navigation bar or Back to Dashboard.
LeavePage ==
  /\ Mounted(Cur)
  /\ Commit(Navigate(Cur, "dashboard"), Plain("other"))

\* handleOptionSelect: the choices are rendered from currentQuestion.options
SelectOption ==
  /\ QuestionShown(Cur)
  /\ currentQuestion.options # <<>>
  /\ \E o \in Choices :
       /\ o # selectedOption
       /\ Commit([Cur EXCEPT !.selectedOption = o], Plain("other"))

\* A click on Submit Answer: disabled={isSubmitting || !selectedOption}.
ClickSubmit ==
  /\ QuestionShown(Cur)
  /\ ~FinalShown(Cur)
  /\ ~isSubmitting
  /\ selectedOption # ""
  /\ Commit(Render(Cur, handleSubmit(Cur, Cur, "click"), FALSE), Plain("handleSubmit"))

\* A click on Submit Test: disabled={isSubmitting}.
ClickFinalSubmit ==
  /\ QuestionShown(Cur)
  /\ FinalShown(Cur)
  /\ ~isSubmitting
  /\ Commit(Render(Cur, handleFinalSubmit(Cur), FALSE), Plain("other"))

\* Time passes.
AdvanceClock ==
  /\ now + ClockStep <= MaxNow
  /\ Commit([Cur EXCEPT !.now = @ + ClockStep], Plain("other"))

\* The interval of the countdown effect fires.
Tick ==
  /\ Armed(Cur)
  /\ LET s == tick(Cur)
     IN Commit(Render(Cur, s, FALSE),
               IF s.inflight # inflight THEN Plain("autoSubmit") ELSE Plain("tick"))

\* resetAssessment is called.
Reset ==
  /\ TRUE
  /\ Commit(Render(Cur, Abandoned(resetAssessment(Cur)), TRUE), Plain("resetAssessment"))

StartOk ==
  \E r \in Pending(Cur), id \in SessionIds, d \in Presentations :
    /\ r.op = "start"
    /\ LET s == Replaced(StartReplied(Cur, r, id, d.question, d.progress), id)
       IN Commit(Render(Cur, s, TRUE),
                 Carrying(Replied("startAssessment", TRUE, r, d.question),
                          id, d.progress, FALSE))

StartFail ==
  \E r \in Pending(Cur) :
    /\ r.op = "start"
    /\ Commit(Render(Cur, StartFailed(Cur, r), FALSE),
              Replied("startAssessment", FALSE, r, NoQuestion))

RespondOk ==
  \E r \in Pending(Cur), nqa \in BOOLEAN, completed \in BOOLEAN :
    /\ r.op = "respond"
    /\ Len(responses) < MaxResponses
    /\ Commit(Render(Cur, RespondReplied(Cur, r, nqa, completed), TRUE),
              Carrying(Replied("submitResponse", TRUE, r, NoQuestion),
                       "undefined", NoPresentation.progress, completed))

RespondFail ==
  \E r \in Pending(Cur) :
    /\ r.op = "respond"
    /\ Commit(Render(Cur, SubmitFailed(Cur, r), FALSE),
              Replied("submitResponse", FALSE, r, NoQuestion))

NextOk ==
  \E r \in Pending(Cur), completed \in BOOLEAN,
     d \in Presentations \cup {NoPresentation} :
    /\ r.op = "next"
    /\ Commit(Render(Cur, NextReplied(Cur, r, completed, d.question, d.progress),
                     completed \/ d.question # NoQuestion),
              Carrying(Replied("submitResponse", TRUE, r,
                                IF completed THEN NoQuestion ELSE d.question),
                       "undefined",
                       IF completed THEN NoPresentation.progress ELSE d.progress,
                       completed))

NextFail ==
  \E r \in Pending(Cur) :
    /\ r.op = "next"
    /\ Commit(Render(Cur, NextFailedNoted(SubmitFailed(Cur, r), r), FALSE),
              Replied("submitResponse", FALSE, r, NoQuestion))

\* submitAssessment resolves (lines 287-288, 293-295) and handleFinalSubmit goes on.
SubmitOk ==
  \E r \in Pending(Cur) :
    /\ r.op = "submit"
    /\ Commit(Render(Cur, SubmitReplied(Cur, r), FALSE),
              Replied("submitAssessment", TRUE, r, NoQuestion))

SubmitFail ==
  \E r \in Pending(Cur) :
    /\ r.op = "submit"
    /\ Commit(Render(Cur, FinalSubmitFailed(Cur, r), FALSE),
              Replied("submitAssessment", FALSE, r, NoQuestion))

Next ==
  \/ EnterPage
  \/ SelectOption
  \/ ClickSubmit
  \/ ClickFinalSubmit
  \/ AdvanceClock
  \/ Tick
  \/ StartOk
  \/ StartFail
  \/ RespondOk
  \/ RespondFail
  \/ NextOk
  \/ NextFail
  \/ SubmitOk
  \/ SubmitFail

\* The user stays on the assessment page until the session is over.
Spec == Init /\ [][Next]_vars

\* The same, with resetAssessment called at any time.
NextReset == Next \/ Reset
SpecReset == Init /\ [][NextReset]_vars

\* The same as SpecReset, with the clock standing still.
NextUntimed ==
  \/ EnterPage
  \/ SelectOption
  \/ ClickSubmit
  \/ ClickFinalSubmit
  \/ Reset
  \/ StartOk
  \/ StartFail
  \/ RespondOk
  \/ RespondFail
  \/ NextOk
  \/ NextFail
  \/ SubmitOk
  \/ SubmitFail
SpecResetUntimed == Init /\ [][NextUntimed]_vars

\* The same as Spec, with the user leaving the page and coming back.
NextNav == Next \/ LeavePage
SpecNav == Init /\ [][NextNav]_vars

\* ------------------------------------- the other operations of the provider
\* They are called by the other pages; here any client of the context calls them
\* with the id of the current question or of the current session, while no other
\* call is pending.
Uploads == {"upload-audio", "upload-writing"}
Reads == {"result", "assessments"}
Transcript == "T"       \* transcript / text of the upload reply

UploadName(op) ==
  IF op = "upload-audio" THEN "uploadAudioResponse" ELSE "uploadWritingResponse"
ReadName(op) ==
  IF op = "result" THEN "getAssessmentResult" ELSE "getUserAssessments"

\* uploadAudioResponse / uploadWritingResponse up to the await of the upload;
\* without a session currentAssessment.id throws inside the try.
uploadResponse(s, op, qid) ==
  IF s.currentAssessment = NoSession
    THEN [s EXCEPT !.loading = FALSE, !.result = Result(FALSE, FALSE)]
    ELSE Issue([s EXCEPT !.loading = TRUE], op, s.currentAssessment.id, qid, NoData)

\* The next call that follows an upload: "audio" is the upload-audio call that
\* handleAudioSubmit of the page awaits.
NextOf(op) == IF op = "audio" THEN "audio-next" ELSE "upload-next"

\* From the reply of the upload on, up to the await of the next call.
UploadReplied(s, r, text) ==
  [AppendResponse(s, r.questionId, [response_text |-> text]) EXCEPT
     !.inflight = (@ (-) One(r)) (+) One([r EXCEPT !.op = NextOf(r.op)])]

\* From the reply of the next call on: completed, a question, or neither.
UploadNextReplied(s, r, completed, q, p) ==
  LET s1 == [Drop(s, r) EXCEPT !.loading = FALSE]
  IN IF completed THEN [MarkCompleted(s1) EXCEPT !.result = Result(TRUE, TRUE)]
     ELSE IF q # NoQuestion
       THEN [PresentNext(s1, q, p) EXCEPT !.result = Result(TRUE, FALSE)]
     ELSE [s1 EXCEPT !.currentQuestion = NoQuestion, !.result = Result(TRUE, TRUE)]

\* An upload whose finally does not run.
UploadFailedStillLoading(s, r) ==
  [Drop(s, r) EXCEPT !.result = Result(FALSE, FALSE)]

\* The catch and finally of uploadAudioResponse / uploadWritingResponse.
UploadFailed(s, r) ==
  [Drop(s, r) EXCEPT !.loading = FALSE, !.result = Result(FALSE, FALSE)]

\* getAssessmentResult / getUserAssessments up to the await.
readCall(s, op, id) == Issue(s, op, id, "undefined", NoData)

\* A read whose return clears the loading flag, as the other operations do.
ReadRepliedClearingLoading(s, r, ok) ==
  [Drop(s, r) EXCEPT !.loading = FALSE, !.result = Result(ok, FALSE)]

\* From the reply on, and the catch.
ReadReplied(s, r, ok) == [Drop(s, r) EXCEPT !.result = Result(ok, FALSE)]

CallUpload ==
  \E op \in Uploads :
    /\ currentQuestion # NoQuestion
    /\ inflight = EmptyBag
    /\ Commit(Render(Cur, uploadResponse(Cur, op, currentQuestion.id), FALSE),
              Plain("other"))

UploadOk ==
  \E r \in Pending(Cur) :
    /\ r.op \in Uploads
    /\ Len(responses) < MaxResponses
    /\ Commit(Render(Cur, UploadReplied(Cur, r, Transcript), TRUE),
              Replied(UploadName(r.op), TRUE, r, NoQuestion))

UploadFail ==
  \E r \in Pending(Cur) :
    /\ r.op \in Uploads
    /\ Commit(Render(Cur, UploadFailed(Cur, r), FALSE),
              Replied(UploadName(r.op), FALSE, r, NoQuestion))

UploadNextOk ==
  \E r \in Pending(Cur), completed \in BOOLEAN,
     d \in Presentations \cup {NoPresentation} :
    /\ r.op = "upload-next"
    /\ Commit(Render(Cur, UploadNextReplied(Cur, r, completed, d.question, d.progress),
                     completed \/ d.question # NoQuestion),
              Carrying(Replied("uploadResponse", TRUE, r,
                                IF completed THEN NoQuestion ELSE d.question),
                       "undefined",
                       IF completed THEN NoPresentation.progress ELSE d.progress,
                       completed))

UploadNextFail ==
  \E r \in Pending(Cur) :
    /\ r.op = "upload-next"
    /\ Commit(Render(Cur, UploadFailed(Cur, r), FALSE),
              Replied("uploadResponse", FALSE, r, NoQuestion))

CallRead ==
  \E op \in Reads :
    /\ \A r \in Pending(Cur) : r.op \notin Reads
    /\ Commit(readCall(Cur, op, IF currentAssessment = NoSession THEN "undefined"
                                ELSE currentAssessment.id), Plain("other"))

ReadOk ==
  \E r \in Pending(Cur) :
    /\ r.op \in Reads
    /\ Commit(ReadReplied(Cur, r, TRUE), Replied(ReadName(r.op), TRUE, r, NoQuestion))

ReadFail ==
  \E r \in Pending(Cur) :
    /\ r.op \in Reads
    /\ Commit(ReadReplied(Cur, r, FALSE), Replied(ReadName(r.op), FALSE, r, NoQuestion))

\* The assessment page with the clock standing still, and the other operations
\* of the provider called at any time.
NextOps ==
  \/ EnterPage
  \/ SelectOption
  \/ ClickSubmit
  \/ ClickFinalSubmit
  \/ StartOk
  \/ StartFail
  \/ RespondOk
  \/ RespondFail
  \/ NextOk
  \/ NextFail
  \/ SubmitOk
  \/ SubmitFail
  \/ CallUpload
  \/ UploadOk
  \/ UploadFail
  \/ UploadNextOk
  \/ UploadNextFail
  \/ CallRead
  \/ ReadOk
  \/ ReadFail
SpecOps == Init /\ [][NextOps]_vars

\* ------------------------------------------- the speaking and writing pages
MediaTypes == {"speaking", "writing"}
Essay == "essay"        \* what the user types when typing

\* The user opens /assessment/speaking or /assessment/writing.
EnterMediaPage ==
  /\ ~Mounted(Cur)
  /\ \E t \in MediaTypes :
       LET s == [Cur EXCEPT !.route = "assessment", !.type = t]
       IN Commit(Render(s, s, TRUE), Plain("other"))

\* handleTextChange
TypeText ==
  /\ QuestionShown(Cur)
  /\ type = "writing"
  /\ textResponse # Essay
  /\ Commit([Cur EXCEPT !.textResponse = Essay], Plain("other"))

\* handleImageUpload
AttachImage ==
  /\ QuestionShown(Cur)
  /\ type = "writing"
  /\ ~imageFile
  /\ Commit([Cur EXCEPT !.imageFile = TRUE], Plain("other"))

\* handleImageRemove
RemoveImage ==
  /\ QuestionShown(Cur)
  /\ type = "writing"
  /\ imageFile
  /\ Commit([Cur EXCEPT !.imageFile = FALSE], Plain("other"))

\* A click on Submit Answer of a writing question:
\* disabled={isSubmitting || (type === 'writing' && !textResponse.trim())}.
ClickSubmitText ==
  /\ QuestionShown(Cur)
  /\ type = "writing"
  /\ ~isSubmitting
  /\ textResponse # ""
  /\ Commit(Render(Cur, handleSubmit(Cur, Cur, "click"), FALSE), Plain("handleSubmit"))

\* handleAudioSubmit from `const result = await uploadAudioResponse(...)` on; the
\* result is the one uploadAudioResponse has resolved with.
AfterAudioSubmit(s, r) ==
  IF s.result.success /\ s.result.completed THEN Navigate(s, "results")
  ELSE IF ~r.page THEN s
  ELSE IF s.result.success
    THEN [s EXCEPT !.responseTime = 0, !.timeRemaining = TimeLimit,
                   !.questionStartTime = s.now, !.isSubmitting = FALSE]
  ELSE [s EXCEPT !.isSubmitting = FALSE]

\* handleAudioSubmit up to its await.
handleAudioSubmit(s) ==
  IF s.currentQuestion = NoQuestion THEN s
  ELSE LET s1 == [s EXCEPT !.isSubmitting = TRUE]
       IN IF s.currentAssessment = NoSession
            THEN AfterAudioSubmit(uploadResponse(s1, "audio", s.currentQuestion.id),
                                  [page |-> TRUE])
            ELSE uploadResponse(s1, "audio", s.currentQuestion.id)

\* Submit Recording of the AudioRecorder: disabled={isSubmitting}; the recorder
\* is rendered for type speaking when the question is shown.
RecordingComplete ==
  /\ QuestionShown(Cur)
  /\ type = "speaking"
  /\ ~isSubmitting
  /\ Commit(Render(Cur, handleAudioSubmit(Cur), FALSE), Plain("handleAudioSubmit"))

AudioOk ==
  \E r \in Pending(Cur) :
    /\ r.op = "audio"
    /\ Len(responses) < MaxResponses
    /\ Commit(Render(Cur, UploadReplied(Cur, r, Transcript), TRUE),
              Replied("uploadAudioResponse", TRUE, r, NoQuestion))

AudioFail ==
  \E r \in Pending(Cur) :
    /\ r.op = "audio"
    /\ Commit(Render(Cur, UploadFailedNoted(AfterAudioSubmit(UploadFailed(Cur, r), r),
                                       r), FALSE),
              Replied("uploadAudioResponse", FALSE, r, NoQuestion))

AudioNextOk ==
  \E r \in Pending(Cur), completed \in BOOLEAN,
     d \in Presentations \cup {NoPresentation} :
    /\ r.op = "audio-next"
    /\ Commit(Render(Cur, AfterAudioSubmit(UploadNextReplied(Cur, r, completed,
                                                             d.question, d.progress), r),
                     completed \/ d.question # NoQuestion),
              Carrying(Replied("uploadAudioResponse", TRUE, r,
                                IF completed THEN NoQuestion ELSE d.question),
                       "undefined",
                       IF completed THEN NoPresentation.progress ELSE d.progress,
                       completed))

AudioNextFail ==
  \E r \in Pending(Cur) :
    /\ r.op = "audio-next"
    /\ Commit(Render(Cur, UploadFailedNoted(AfterAudioSubmit(UploadFailed(Cur, r), r),
                                       r), FALSE),
              Replied("uploadAudioResponse", FALSE, r, NoQuestion))

\* The assessment page opened for speaking or for writing.
NextMedia ==
  \/ EnterMediaPage
  \/ TypeText
  \/ AttachImage
  \/ RemoveImage
  \/ ClickSubmitText
  \/ RecordingComplete
  \/ AdvanceClock
  \/ Tick
  \/ StartOk
  \/ StartFail
  \/ RespondOk
  \/ RespondFail
  \/ NextOk
  \/ NextFail
  \/ AudioOk
  \/ AudioFail
  \/ AudioNextOk
  \/ AudioNextFail
SpecMedia == Init /\ [][NextMedia]_vars

\* ------------------------------------------------------ the audio recorder
\* The interval of the preparation effect fires (AudioRecorder.js lines 23-31).
PrepTick ==
  /\ RecorderShown(Cur)
  /\ recorder.isPreparing
  /\ Commit([Cur EXCEPT !.recorder =
               IF @.prepTime <= 1 THEN [@ EXCEPT !.isPreparing = FALSE, !.prepTime = 0]
               ELSE [@ EXCEPT !.prepTime = @ - 1]],
            Plain("other"))

\* startRecording with the microphone granted.  The button is rendered after the
\* preparation while there is no recording, disabled={disabled}; the stop event
\* of the recording before is dispatched before the next click is handled.
StartRecording ==
  /\ RecorderShown(Cur)
  /\ ~recorder.isPreparing /\ ~recorder.audioBlob /\ ~recorder.isRecording
  /\ ~recorder.stopping
  /\ ~isSubmitting
  /\ Commit([Cur EXCEPT !.recorder.isRecording = TRUE, !.recorder.recordingTime = 0],
            Plain("startRecording"))

\* The test of the recording timer effect: isRecording && !isPaused.
RecordingTimerRuns(r) == r.isRecording /\ ~r.isPaused

\* The callback of the recording timer: setRecordingTime(prev => prev + 1).
recordingTick(r) == [r EXCEPT !.recordingTime = @ + 1]

\* The interval of the recording timer effect fires.
RecordingTick ==
  /\ RecorderShown(Cur)
  /\ RecordingTimerRuns(recorder)
  /\ recorder.recordingTime < MaxRecorded
  /\ Commit([Cur EXCEPT !.recorder = recordingTick(@)], Plain("recordingTick"))

\* pauseRecording: pauses, or resumes a paused recording.
PauseRecording ==
  /\ RecorderShown(Cur)
  /\ recorder.isRecording
  /\ Commit([Cur EXCEPT !.recorder.isPaused = ~@], Plain("other"))

\* stopRecording
StopRecording ==
  /\ RecorderShown(Cur)
  /\ recorder.isRecording
  /\ Commit([Cur EXCEPT !.recorder.isRecording = FALSE, !.recorder.isPaused = FALSE,
                        !.recorder.stopping = TRUE],
            Plain("stopRecording"))

\* mediaRecorder.onstop: the recording becomes the blob.
RecorderStopped ==
  /\ RecorderShown(Cur)
  /\ recorder.stopping
  /\ Commit([Cur EXCEPT !.recorder.stopping = FALSE, !.recorder.audioBlob = TRUE],
            Plain("onstop"))

\* A click on Record Again.
RecordAgain ==
  /\ RecorderShown(Cur)
  /\ recorder.audioBlob
  /\ Commit([Cur EXCEPT !.recorder.audioBlob = FALSE, !.recorder.recordingTime = 0],
            Plain("other"))

\* A click on Submit Recording, disabled={disabled}: handleSubmit of the recorder
\* hands the blob to onRecordingComplete, which is handleAudioSubmit of the page.
SubmitRecording ==
  /\ RecorderShown(Cur)
  /\ recorder.audioBlob
  /\ ~isSubmitting
  /\ Commit(Render(Cur, handleAudioSubmit(Cur), FALSE), Plain("submitRecording"))

NextRecorder ==
  \/ EnterMediaPage
  \/ StartOk
  \/ PrepTick
  \/ StartRecording
  \/ RecordingTick
  \/ PauseRecording
  \/ StopRecording
  \/ RecorderStopped
  \/ RecordAgain
  \/ SubmitRecording
  \/ AudioOk
  \/ AudioNextOk

SpecRecorder == Init /\ [][NextRecorder]_vars

\* The assessment page left to its countdown: the service answers the start
\* calls, the user may select an option but does not click, and the interval
\* keeps firing while it is armed.
NextCountdown ==
  \/ EnterPage
  \/ SelectOption
  \/ AdvanceClock
  \/ Tick
  \/ StartOk
  \/ RespondOk
  \/ RespondFail
  \/ NextOk
  \/ NextFail
SpecCountdown == Init /\ [][NextCountdown]_vars /\ WF_vars(Tick)

\* ------------------------------------------------ ticks at uneven moments
\* Time passes by an amount that is not a whole number of seconds, so that the
\* timer fires between two ticks of the wall clock.
ClockSteps == {40500, 80000}

AdvanceClockBy ==
  \E d \in ClockSteps :
    /\ now + d <= MaxNow
    /\ Commit([Cur EXCEPT !.now = @ + d], Plain("other"))

NextTicks ==
  \/ EnterPage
  \/ AdvanceClockBy
  \/ Tick
  \/ Reset
  \/ StartOk
  \/ RespondOk
  \/ NextOk

SpecTicks == Init /\ [][NextTicks]_vars

\* ------------------------------------------- coming back after completion
\* The user answers, leaves and comes back; the service answers every call.
NextReturn ==
  \/ EnterPage
  \/ LeavePage
  \/ SelectOption
  \/ ClickSubmit
  \/ StartOk
  \/ RespondOk
  \/ NextOk

SpecReturn ==
  /\ Init
  /\ [][NextReturn]_vars
  /\ WF_vars(StartOk) /\ WF_vars(RespondOk) /\ WF_vars(NextOk)

\* ------------------------------------------------------ the auth provider
Tokens == {"t1", "t2"}      \* the access tokens the service hands out
SignIns == {"login", "register"}

\* GET /api/auth/me answers with the user the token belongs to.
UserOf(tk) == tk

AuthCall(op, tk) == [op |-> op, token |-> tk]

\* What the last step of the auth provider did: the function, the axios call
\* whose reply it handled, whether the reply was a success, and the token of
\* the call.
AuthOp(name, call, ok, tk) == [op |-> name, call |-> call, ok |-> ok, token |-> tk]

IssueAuth(a, op, tk) ==
  IF BagCardinality(a.calls) >= MaxAuthCalls THEN [a EXCEPT !.overflow = TRUE]
  ELSE [a EXCEPT !.calls = @ (+) SetToBag({AuthCall(op, tk)})]

DropAuth(a, r) == [a EXCEPT !.calls = @ (-) SetToBag({r})]

\* The checkAuth effect up to its await: with a token it asks /api/auth/me,
\* without one it only clears the loading flag.
checkAuth(a) ==
  IF a.token # NoToken THEN IssueAuth(a, "check", a.token)
  ELSE [a EXCEPT !.loading = FALSE]

\* setToken(tk): the effects on [token] run when the token has changed.
setToken(a, tk) ==
  IF a.token = tk THEN a ELSE checkAuth([a EXCEPT !.token = tk])

\* localStorage.removeItem('token'); setToken(null); setUser(null)
ClearAuth(a) ==
  [setToken([a EXCEPT !.stored = NoToken], NoToken) EXCEPT !.user = NoUser]

\* A sign-in that keeps the token as soon as the service has handed it out.
TokenRepliedStoringToken(a, r, tk) ==
  LET a1 == [DropAuth(a, r) EXCEPT !.stored = tk]
  IN IssueAuth(setToken(a1, tk), r.op \o "-me", tk)

\* login and register from the reply of the POST on: the token is tried on
\* /api/auth/me with a header of its own.
TokenReplied(a, r, tk) == IssueAuth(DropAuth(a, r), r.op \o "-me", tk)

\* login and register from the reply of /api/auth/me on.
MeReplied(a, r) ==
  setToken([DropAuth(a, r) EXCEPT !.user = UserOf(r.token), !.stored = r.token],
           r.token)

\* checkAuth from the reply of /api/auth/me on.
CheckReplied(a, r) ==
  [DropAuth(a, r) EXCEPT !.user = UserOf(r.token), !.loading = FALSE]

\* The catch of checkAuth: the token is dropped; the user is not touched.
CheckFailed(a, r) ==
  [setToken([DropAuth(a, r) EXCEPT !.stored = NoToken], NoToken) EXCEPT
     !.loading = FALSE]

\* One step of the auth provider: the assessment provider and the pages stay as
\* they are.
CommitAuth(a, op) ==
  \E t \in {a} :
    /\ ~t.overflow
    /\ auth' = t
    /\ lastOp' = op
    /\ UNCHANGED <<currentAssessment, currentQuestion, responses, loading,
                   selectedOption, responseTime, isSubmitting, timeRemaining,
                   questionStartTime, textResponse, imageFile, type, route, now,
                   inflight, recorder, issued>>

\* The provider mounts: useState(localStorage.getItem('token')), loading true,
\* and the checkAuth effect has run.
InitAuth ==
  /\ currentAssessment = NoSession
  /\ currentQuestion = NoQuestion
  /\ responses = <<>>
  /\ loading = FALSE
  /\ selectedOption = ""
  /\ responseTime = 0
  /\ isSubmitting = FALSE
  /\ timeRemaining = TimeLimit
  /\ questionStartTime = NoTime
  /\ textResponse = ""
  /\ imageFile = FALSE
  /\ type = "reading"
  /\ route = "dashboard"
  /\ now = StartOfTime
  /\ inflight = EmptyBag
  /\ recorder = NewRecorder
  /\ \E tk \in Tokens \cup {NoToken} :
       auth = checkAuth([SignedOut EXCEPT !.token = tk, !.stored = tk,
                                         !.loading = TRUE])
  /\ lastOp = AuthOp("init", "none", FALSE, NoToken)
  /\ issued = NoIssued

\* The login form or the register form is submitted.
CallSignIn ==
  \E op \in SignIns :
    /\ BagCardinality(auth.calls) < MaxAuthCalls
    /\ CommitAuth(IssueAuth(auth, op, NoToken), AuthOp(op, "none", FALSE, NoToken))

\* The POST of login or register is answered with an access token.
TokenOk ==
  \E r \in BagToSet(auth.calls), tk \in Tokens :
    /\ r.op \in SignIns
    /\ CommitAuth(TokenReplied(auth, r, tk), AuthOp(r.op, r.op, TRUE, tk))

\* The POST fails: the catch of login or register.
TokenFail ==
  \E r \in BagToSet(auth.calls) :
    /\ r.op \in SignIns
    /\ CommitAuth(ClearAuth(DropAuth(auth, r)), AuthOp(r.op, r.op, FALSE, NoToken))

\* /api/auth/me accepts the new token.
MeOk ==
  \E r \in BagToSet(auth.calls), op \in SignIns :
    /\ r.op = op \o "-me"
    /\ CommitAuth(MeReplied(auth, r), AuthOp(op, r.op, TRUE, r.token))

\* /api/auth/me rejects the new token: the catch of login or register.
MeFail ==
  \E r \in BagToSet(auth.calls), op \in SignIns :
    /\ r.op = op \o "-me"
    /\ CommitAuth(ClearAuth(DropAuth(auth, r)), AuthOp(op, r.op, FALSE, r.token))

\* The /api/auth/me of checkAuth is answered.
CheckOk ==
  \E r \in BagToSet(auth.calls) :
    /\ r.op = "check"
    /\ CommitAuth(CheckReplied(auth, r), AuthOp("checkAuth", "check", TRUE, r.token))

CheckFail ==
  \E r \in BagToSet(auth.calls) :
    /\ r.op = "check"
    /\ CommitAuth(CheckFailed(auth, r), AuthOp("checkAuth", "check", FALSE, r.token))

\* logout, from the navigation bar of a signed-in user.
Logout ==
  /\ auth.user # NoUser
  /\ CommitAuth(ClearAuth(auth), AuthOp("logout", "none", FALSE, NoToken))

NextAuth ==
  \/ CallSignIn
  \/ TokenOk
  \/ TokenFail
  \/ MeOk
  \/ MeFail
  \/ CheckOk
  \/ CheckFail
  \/ Logout

SpecAuth == InitAuth /\ [][NextAuth]_vars

\* ------------------------------------------------------------------ claims
Submissions == {"respond", "next", "submit"}

\* The last step was submitResponse returning its result.
SubmitResponseReturned == lastOp.op = "submitResponse" /\ lastOp.result.returned

\* The last step ended the session: submitResponse resolved with completed=true,
\* or submitAssessment, called for the session that is current, succeeded.
SessionOver ==
  \/ SubmitResponseReturned /\ lastOp.result.completed
  \/ lastOp.op = "submitAssessment" /\ lastOp.result.success /\ ~lastOp.stale

NoDuplicate(h) ==
  \A i, j \in DOMAIN h : h[i].questionId = h[j].questionId => i = j

Answered(h, qid) == \E i \in DOMAIN h : h[i].questionId = qid

\* C1: after every successful submitResponse exactly one of the two holds: the
\* current question is the question the next reply carried and the result says
\* completed=false, or the current question is cleared and the result says
\* completed=true.
C1_AdvanceOrComplete ==
  (SubmitResponseReturned /\ lastOp.result.success) =>
    ( (currentQuestion = NoQuestion /\ lastOp.result.completed)
      # (/\ currentQuestion # NoQuestion
         /\ currentQuestion = lastOp.question
         /\ ~lastOp.result.completed) )

\* C2: submitResponse changes none of the session, the current question and the
\* history when its respond call fails: neither the step that issues the call nor
\* the step in which the call fails changes them, and submitResponse then
\* resolves with success=false.
C2_FailedRespondChangesNothing ==
  [][/\ lastOp'.op \in {"handleSubmit", "autoSubmit"} =>
          UNCHANGED <<currentAssessment, currentQuestion, responses>>
     /\ (lastOp'.call = "respond" /\ ~lastOp'.ok) =>
          /\ UNCHANGED <<currentAssessment, currentQuestion, responses>>
          /\ lastOp'.result = Result(FALSE, FALSE)]_vars

\* C2's case: a respond call has failed in a session that has a question on
\* screen and a response already in its history.
C2_Witness ==
  /\ lastOp.call = "respond" /\ ~lastOp.ok
  /\ currentAssessment # NoSession
  /\ currentQuestion # NoQuestion
  /\ responses # <<>>

\* C3: when submitResponse resolves with success=false for a page that is still
\* there, the page holds the selected option it held before.
C3_AnswerKeptOnFailure ==
  [][(/\ lastOp'.op = "submitResponse"
      /\ lastOp'.result.returned
      /\ ~lastOp'.result.success
      /\ lastOp'.page
      /\ route' = "assessment")
       => selectedOption' = selectedOption]_vars

\* C4: no two submissions (respond, next, submit) are pending together for one
\* session.
C4_OneSubmissionInFlight ==
  \A r1, r2 \in BagToSet(inflight) :
    (r1.op \in Submissions /\ r2.op \in Submissions /\ r1.sid = r2.sid) =>
      (r1 = r2 /\ CopiesIn(r1, inflight) = 1)

\* C5: when a session is over, no question id occurs twice in its history and
\* the question that was on screen has an entry in it.
C5_OneEntryPerQuestion ==
  SessionOver =>
    /\ NoDuplicate(responses)
    /\ lastOp.op = "submitAssessment" /\ currentQuestion # NoQuestion
         => Answered(responses, currentQuestion.id)

\* C6: the countdown does not trigger a submission of a question for which it
\* has triggered one before.
C6_OneAutoSubmitPerQuestion ==
  [][lastOp'.op = "autoSubmit" => ~issued.timer]_vars

\* C7: the countdown does not trigger a submission of a question for which a
\* manual submission has been triggered.
C7_NoAutoSubmitAfterManual ==
  [][lastOp'.op = "autoSubmit" => ~issued.click]_vars

\* C8: a failed next call leaves the history as it is, and once the next call for
\* the question on screen has failed no respond request is issued for that
\* question again.
C8_RetryOnlyNext ==
  [][/\ (lastOp'.call = "next" /\ ~lastOp'.ok) => responses' = responses
     /\ lastOp'.op \in {"handleSubmit", "autoSubmit"} => ~issued.nextFailed]_vars

\* C9: a reply to a call that was made before resetAssessment, or for a session
\* that has since been replaced, changes none of the session, the current
\* question and the history.
C9_StaleReplyDiscarded ==
  [][lastOp'.stale => UNCHANGED <<currentAssessment, currentQuestion, responses>>]_vars

\* C10: right after resetAssessment there is no session, no current question and
\* the history is empty.
C10_ResetClears ==
  lastOp.op = "resetAssessment" =>
    /\ currentAssessment = NoSession
    /\ currentQuestion = NoQuestion
    /\ responses = <<>>

\* C10's case: resetAssessment was called while a respond call was pending.
C10_Witness ==
  /\ lastOp.op = "resetAssessment"
  /\ \E r \in BagToSet(inflight) : r.op = "respond" /\ r.stale

\* C11: the step in which startAssessment succeeds sets the session to the id and
\* the progress of the reply with the type asked for, sets the current question
\* to the question of the reply and empties the history; the step in which it
\* fails leaves the three as they were and resolves with success=false.
C11_StartSetsOrKeeps ==
  [][lastOp'.op = "startAssessment" =>
       IF lastOp'.ok
         THEN /\ currentAssessment' = [tag |-> "session", id |-> lastOp'.id,
                                       type |-> "reading",
                                       progress |-> lastOp'.progress]
              /\ currentQuestion' = lastOp'.question
              /\ responses' = <<>>
              /\ lastOp'.result = Result(TRUE, FALSE)
         ELSE /\ UNCHANGED <<currentAssessment, currentQuestion, responses>>
              /\ lastOp'.result = Result(FALSE, FALSE)]_vars

\* C11's case: startAssessment has succeeded while the next call of a
\* submitResponse of the session before was pending, that is, over a history that
\* held a response.
C11_Witness ==
  /\ lastOp.op = "startAssessment" /\ lastOp.ok
  /\ \E r \in BagToSet(inflight) : r.op = "next"

\* C12: submitResponse resolves with completed=true only when the reply it
\* handled carried completed=true.
C12_CompletedOnlyOnSignal ==
  (SubmitResponseReturned /\ lastOp.result.completed) => lastOp.completed

\* C13: the step in which submitResponse resolves with completed=true, from the
\* respond reply or from the next reply, leaves no current question, a session
\* with the id it had and progress.current = progress.total, and a history that
\* holds the response of the call.
C13_SameTerminalState ==
  [][(lastOp'.op = "submitResponse" /\ lastOp'.result.completed) =>
       /\ currentQuestion' = NoQuestion
       /\ currentAssessment # NoSession
       /\ currentAssessment' # NoSession
       /\ currentAssessment'.id = currentAssessment.id
       /\ currentAssessment'.progress.current = currentAssessment'.progress.total
       /\ \A r \in BagToSet(inflight) :
            (r.op = lastOp'.call /\ CopiesIn(r, inflight') < CopiesIn(r, inflight))
              => Answered(responses', r.questionId)]_vars

\* C14: in every step that keeps the session (no start reply), progress.current
\* does not decrease and does not exceed progress.total, progress.total stays
\* what it was, and when the step marks the session completed progress.current
\* equals progress.total.
C14_ProgressMonotone ==
  [][(/\ currentAssessment # NoSession
      /\ currentAssessment' # NoSession
      /\ lastOp'.op # "startAssessment") =>
       /\ currentAssessment'.progress.current >= currentAssessment.progress.current
       /\ currentAssessment'.progress.current <= currentAssessment'.progress.total
       /\ currentAssessment'.progress.total = currentAssessment.progress.total
       /\ (lastOp'.op = "submitResponse" /\ lastOp'.result.completed) =>
            currentAssessment'.progress.current = currentAssessment'.progress.total]_vars

\* The pending calls of one kind.
CountOp(b, op) == Copies(b, {r \in BagToSet(b) : r.op = op})

\* C15: the step in which a start, respond, next or submit call fails sends no
\* call of that kind again: after it, one call of that kind fewer is pending.
C15_NoAutomaticRetry ==
  [][(lastOp'.call \in {"start", "respond", "next", "submit"} /\ ~lastOp'.ok) =>
       CountOp(inflight', lastOp'.call) < CountOp(inflight, lastOp'.call)]_vars

\* C16: at most one of the start, respond and next calls is pending at any time;
\* in particular no two start calls are.
C16_OneCallAtATime ==
  CountOp(inflight, "start") + CountOp(inflight, "respond")
    + CountOp(inflight, "next") <= 1

\* C17: a step in which a call of the provider fails resolves the operation with
\* success=false, and the controller stays usable: when no call is pending the
\* loading flag and the submitting flag of the page are down, so every operation
\* can be invoked again.
C17_FailuresAreResults ==
  /\ (lastOp.call # "none" /\ ~lastOp.ok) => lastOp.result = Result(FALSE, FALSE)
  /\ inflight = EmptyBag => (~loading /\ ~isSubmitting)

\* C17's case: an upload has failed and no call is pending.
C17_Witness ==
  /\ lastOp.call \in Uploads /\ ~lastOp.ok
  /\ inflight = EmptyBag

\* ------------------------------------------ questions that have no options
\* The start reply presents a question that has no options.
StartOkNoOptions ==
  \E r \in Pending(Cur), id \in SessionIds, d \in Presentations :
    /\ r.op = "start"
    /\ LET q == QuestionWithoutOptions(d.question.id)
           s == Replaced(StartReplied(Cur, r, id, q, d.progress), id)
       IN Commit(Render(Cur, s, TRUE),
                 Carrying(Replied("startAssessment", TRUE, r, q), id, d.progress, FALSE))

NextOptions == Next \/ StartOkNoOptions
SpecOptions == Init /\ [][NextOptions]_vars

\* C19: a submission made while no option is selected, one that the countdown
\* triggers in particular, carries the first option of the current question as
\* its response_text, and no submission carries an empty or undefined
\* response_text.
C19_DefaultsToFirstOption ==
  [][lastOp'.op \in {"handleSubmit", "autoSubmit"} =>
       \A r \in BagToSet(inflight') :
         (r.op = "respond" /\ CopiesIn(r, inflight') > CopiesIn(r, inflight)) =>
           /\ r.data.response_text \notin {"", "undefined"}
           /\ selectedOption = "" => /\ currentQuestion.options # <<>>
                                     /\ r.data.response_text = currentQuestion.options[1]]_vars

\* ------------------------------------------------- the error normalisation
\* JavaScript values as the service's error payload can hold them.  A number
\* or a boolean is kept by its text, so that values of all kinds can be compared.
MaxItems == 2           \* length of a list detail

Undefined == [kind |-> "undefined"]
Null == [kind |-> "null"]
Str(t) == [kind |-> "string", text |-> t]
Num(t) == [kind |-> "number", text |-> t]
Bool(t) == [kind |-> "boolean", text |-> t]
Obj(m) == [kind |-> "object", msg |-> m]     \* {code: "E1", msg: m}
List(items) == [kind |-> "list", items |-> items]

Scalars ==
  {Undefined, Null, Str(""), Str("boom"), Num("0"), Num("42"), Bool("false"),
   Bool("true")}
Objects == {Obj(m) : m \in Scalars}          \* Obj(Undefined) has no msg
Items == {Str(""), Str("boom"), Null, Num("42"), Obj(Undefined), Obj(Str("bad")),
          Obj(Num("42"))}
Lists == {List(items) : items \in UNION {[1..n -> Items] : n \in 0..MaxItems}}
Details == Scalars \cup Objects \cup Lists

\* The error the catch block receives: a network error has no response, an HTTP
\* error has response.data.detail.
NetworkError == [tag |-> "network"]
HttpError(d) == [tag |-> "http", detail |-> d]
Errors == {NetworkError} \cup {HttpError(d) : d \in Details}
Fallbacks == {"Failed to start assessment", "Failed to submit response"}

\* Boolean(v)
Truthy(v) ==
  CASE v.kind \in {"undefined", "null"} -> FALSE
    [] v.kind = "string" -> v.text # ""
    [] v.kind = "number" -> v.text # "0"
    [] v.kind = "boolean" -> v.text = "true"
    [] OTHER -> TRUE

\* d?.msg
MsgOf(d) == IF d.kind = "object" THEN d.msg ELSE Undefined

\* String(v), as Array.prototype.join converts an element
ToText(v) ==
  CASE v.kind \in {"string", "number", "boolean"} -> v.text
    [] v.kind = "object" -> "[object Object]"
    [] OTHER -> ""

RECURSIVE Join(_, _)
Join(msgs, sep) ==
  IF msgs = <<>> THEN ""
  ELSE IF Len(msgs) = 1 THEN ToText(msgs[1])
  ELSE ToText(msgs[1]) \o sep \o Join(Tail(msgs), sep)

\* JSON.stringify of a value inside an array or an object
Quoted(t) == "\"" \o t \o "\""
StringifyScalar(v) ==
  CASE v.kind = "string" -> Quoted(v.text)
    [] v.kind \in {"number", "boolean"} -> v.text
    [] OTHER -> "null"
StringifyObject(o) ==
  IF o.msg = Undefined THEN "{\"code\":\"E1\"}"
  ELSE "{\"code\":\"E1\",\"msg\":" \o StringifyScalar(o.msg) \o "}"
StringifyItem(v) == IF v.kind = "object" THEN StringifyObject(v) ELSE StringifyScalar(v)
RECURSIVE StringifyItems(_)
StringifyItems(items) ==
  IF items = <<>> THEN ""
  ELSE IF Len(items) = 1 THEN StringifyItem(items[1])
  ELSE StringifyItem(items[1]) \o "," \o StringifyItems(Tail(items))
Stringify(v) ==
  IF v.kind = "list" THEN "[" \o StringifyItems(v.items) \o "]" ELSE StringifyItem(v)

\* detail.map((d) => d?.msg || (typeof d === 'string' ? d : null))
MapItem(d) ==
  IF Truthy(MsgOf(d)) THEN MsgOf(d) ELSE IF d.kind = "string" THEN d ELSE Null
RECURSIVE Msgs(_)
Msgs(items) ==
  IF items = <<>> THEN <<>>
  ELSE (IF Truthy(MapItem(items[1])) THEN <<MapItem(items[1])>> ELSE <<>>)
       \o Msgs(Tail(items))

\* error?.response?.data?.detail
DetailOf(error) == IF error.tag = "http" THEN error.detail ELSE Undefined

toErrorMessageOfDetail(detail, fallback) ==
  IF ~Truthy(detail) THEN Str(fallback)
  ELSE IF detail.kind = "string" THEN detail
  ELSE IF detail.kind = "list"
    THEN IF Msgs(detail.items) # <<>> THEN Str(Join(Msgs(detail.items), "; "))
         ELSE Str(Stringify(detail))
  ELSE IF detail.kind = "object"
    THEN IF Truthy(detail.msg) THEN detail.msg ELSE Str(Stringify(detail))
  ELSE Str(fallback)

toErrorMessage(error, fallback) == toErrorMessageOfDetail(DetailOf(error), fallback)

\* A call of toErrorMessage as an operation of the history: a catch block has
\* received `error`, and `message` is what toErrorMessage returned for it.
Caught(error, fallback) ==
  [op |-> "catch", error |-> error, fallback |-> fallback, message |-> Undefined]

InitErrors ==
  /\ currentAssessment = NoSession
  /\ currentQuestion = NoQuestion
  /\ responses = <<>>
  /\ loading = TRUE
  /\ selectedOption = ""
  /\ responseTime = 0
  /\ isSubmitting = FALSE
  /\ timeRemaining = TimeLimit
  /\ questionStartTime = NoTime
  /\ textResponse = ""
  /\ imageFile = FALSE
  /\ type = "reading"
  /\ route = "assessment"
  /\ now = StartOfTime
  /\ inflight = EmptyBag
  /\ recorder = NewRecorder
  /\ auth = SignedOut
  /\ lastOp \in {Caught(e, f) : e \in Errors, f \in Fallbacks}
  /\ issued = NoIssued

\* The catch block builds {success: false, error: toErrorMessage(error, fallback)}
\* and the finally block clears the loading flag.
Normalize ==
  /\ lastOp.op = "catch"
  /\ lastOp' = [lastOp EXCEPT !.op = "toErrorMessage",
                              !.message = toErrorMessage(lastOp.error, lastOp.fallback)]
  /\ loading' = FALSE
  /\ UNCHANGED <<currentAssessment, currentQuestion, responses, selectedOption,
                 responseTime, isSubmitting, timeRemaining, questionStartTime,
                 textResponse, imageFile, type, route, now, inflight, recorder,
                 auth, issued>>

NextErrors == Normalize
SpecErrors == InitErrors /\ [][NextErrors]_vars

\* What the priority order string, list of messages, object with msg, fallback
\* gives for a detail.  An empty value (undefined, null, "", 0, false) counts as
\* an absent detail, and an empty msg as no msg.
IsAbsent(d) == ~Truthy(d)
IsMessageList(d) == d.kind = "list" /\ Msgs(d.items) # <<>>
IsObjectWithMsg(d) == d.kind = "object" /\ Truthy(d.msg)

\* C18: toErrorMessage returns a single string for every shape of the detail: a
\* string detail as it is, the joined messages of a list, the msg of an object
\* that has one, the fallback for an absent detail and for every other shape;
\* what it returns is never anything but a string.
C18_AlwaysOneString ==
  lastOp.op = "toErrorMessage" =>
    LET detail == DetailOf(lastOp.error)
        message == lastOp.message
    IN /\ message.kind = "string"
       /\ CASE IsAbsent(detail) -> message = Str(lastOp.fallback)
            [] detail.kind = "string" -> message = detail
            [] IsMessageList(detail) -> message = Str(Join(Msgs(detail.items), "; "))
            [] IsObjectWithMsg(detail) -> message = detail.msg
            [] OTHER -> message = Str(lastOp.fallback)

\* The pending calls of kind op that this step has answered.
AnsweredCalls(op) ==
  {r \in BagToSet(inflight) : r.op = op /\ CopiesIn(r, inflight') < CopiesIn(r, inflight)}

\* C20: when the respond call for a question succeeds with
\* next_question_available the history grows by exactly the response for that
\* question, and when the next call then returns a question and a progress the
\* current question and the progress of the session are exactly those, the
\* history being the one the respond reply left, ending with that response.
C20_ShowsNextQuestion ==
  [][/\ (lastOp'.op = "submitResponse" /\ lastOp'.call = "respond" /\ lastOp'.ok) =>
          \A r \in AnsweredCalls("respond") :
            CopiesIn([r EXCEPT !.op = "next"], inflight')
              > CopiesIn([r EXCEPT !.op = "next"], inflight) =>
                /\ responses' = Append(responses, NewResponse(r.questionId, r.data))
                /\ UNCHANGED <<currentAssessment, currentQuestion>>
     /\ (/\ lastOp'.op = "submitResponse" /\ lastOp'.call = "next" /\ lastOp'.ok
         /\ ~lastOp'.completed /\ lastOp'.question # NoQuestion) =>
          /\ currentQuestion' = lastOp'.question
          /\ currentAssessment' # NoSession
          /\ currentAssessment'.progress = lastOp'.progress
          /\ responses' = responses
          /\ \A r \in AnsweredCalls("next") :
               /\ responses' # <<>>
               /\ responses'[Len(responses')].questionId = r.questionId]_vars

\* The number of entries made by an upload that the history h holds for
\* question qid.
Entries(h, qid) ==
  Cardinality({i \in DOMAIN h : h[i] = NewResponse(qid, [response_text |-> Transcript])})

\* C21: when uploadAudioResponse fails the history stays as it was and the
\* countdown of the question on screen is armed again, and when after that an
\* upload for the same question has succeeded and the session has advanced, the
\* history holds one entry of an upload for that question.
C21_FailedUploadThenOneAdvance ==
  [][/\ (lastOp'.op = "uploadAudioResponse" /\ ~lastOp'.ok) =>
          /\ responses' = responses
          /\ (lastOp'.page /\ currentQuestion' # NoQuestion) =>
               (questionStartTime' # NoTime /\ ~isSubmitting')
     /\ (/\ lastOp'.op = "uploadAudioResponse" /\ lastOp'.call = "audio-next"
         /\ lastOp'.ok /\ issued.uploadFailed) =>
          \A r \in AnsweredCalls("audio-next") : Entries(responses', r.questionId) = 1]_vars

\* C22: getAssessmentResult and getUserAssessments change none of the session,
\* the current question, the history and the loading flag: neither the step that
\* makes the call nor the step in which it succeeds or fails.
C22_ReadsChangeNothing ==
  [][(\/ lastOp'.call \in Reads
      \/ \E op \in Reads : CountOp(inflight', op) > CountOp(inflight, op)) =>
       UNCHANGED <<currentAssessment, currentQuestion, responses, loading>>]_vars

\* C22's case: a read has returned while a session with a question was loading.
C22_Witness ==
  /\ lastOp.call \in Reads
  /\ loading
  /\ currentAssessment # NoSession
  /\ currentQuestion # NoQuestion
  /\ responses # <<>>

\* The limit of the question on screen has been reached and its countdown is
\* armed.
Expired == Armed(Cur) /\ currentQuestion # NoQuestion /\ Elapsed(Cur) >= TimeLimit

\* The pending respond requests that carry the answer on screen: the selected
\* option, or the first option when none is selected.
AnswerOnScreen(b) ==
  Copies(b, {r \in BagToSet(b) :
               /\ r.op = "respond"
               /\ r.sid = currentAssessment.id
               /\ r.questionId = currentQuestion.id
               /\ r.data.response_text = IF selectedOption # "" THEN selectedOption
                                         ELSE FirstOption(currentQuestion)})

\* C23: the countdown does not block a question.  It submits only when the
\* elapsed time of the question on screen has reached 120 seconds, the request it
\* issues is for that question and carries the selected option, or the first
\* option when none is selected; and while the interval keeps firing, a question
\* whose limit has been reached does not stay on screen unsubmitted.
C23_CountdownSubmits ==
  /\ [][lastOp'.op = "autoSubmit" =>
          /\ Expired
          /\ currentAssessment # NoSession
          /\ AnswerOnScreen(inflight') = AnswerOnScreen(inflight) + 1]_vars
  /\ (Expired ~> lastOp.op = "autoSubmit" \/ ~Expired)

\* C23's case: the countdown has submitted the question on screen while no
\* option was selected.
C23_Witness ==
  /\ lastOp.op = "autoSubmit"
  /\ selectedOption = ""
  /\ \E r \in BagToSet(inflight) :
       r.op = "respond" /\ r.questionId = QId(currentQuestion)
                        /\ r.data.response_text = Options[1]

\* C24: no respond request is issued for a speaking question, whose answer goes
\* through the upload-audio call, and a successful upload appends to the history
\* exactly one entry, the transcript being its response_text.
C24_SpeakingOnlyByUpload ==
  [][/\ CountOp(inflight', "respond") > CountOp(inflight, "respond") => type # "speaking"
     /\ (lastOp'.op = "uploadAudioResponse" /\ lastOp'.call = "audio" /\ lastOp'.ok) =>
          \A r \in AnsweredCalls("audio") :
            responses' = Append(responses,
                                NewResponse(r.questionId, [response_text |-> Transcript]))]_vars

\* C25: when a writing answer is submitted while an image is attached, the image
\* is sent through the upload-writing call: the step that submits the answer
\* issues that call, and issues no respond request in its place.
C25_ImageGoesByUpload ==
  [][(lastOp'.op \in {"handleSubmit", "autoSubmit"} /\ type = "writing" /\ imageFile) =>
       /\ CountOp(inflight', "upload-writing") > CountOp(inflight, "upload-writing")
       /\ CountOp(inflight', "respond") = CountOp(inflight, "respond")]_vars

\* C26: when submitAssessment has succeeded for the session that is current, the
\* provider holds no current question, as after a completion signalled by the
\* respond or the next reply.
C26_FinalizedHoldsNoQuestion ==
  (lastOp.op = "submitAssessment" /\ lastOp.ok /\ ~lastOp.stale) =>
    currentQuestion = NoQuestion

\* C27: a recording in the audio recorder never runs longer than 60 seconds: the
\* recording time never exceeds 60, and no recording is submitted with a
\* recording time above 60.
C27_RecordingStopsAtLimit ==
  /\ [](recorder.recordingTime <= RecordingLimit)
  /\ [][lastOp'.op = "submitRecording" => recorder.recordingTime <= RecordingLimit]_vars

\* A question is presented by this step: the mounted page has a current question
\* that it did not show before the step.
Presented ==
  /\ route' = "assessment"
  /\ currentQuestion' # NoQuestion
  /\ (currentQuestion' # currentQuestion \/ route # "assessment")

\* C28: whenever a new question becomes the current question of the page, the
\* countdown is armed fresh: the arm timestamp is the time of the presentation,
\* the remaining time is 120 and the response time is 0.
C28_RearmedFresh ==
  [][Presented => /\ questionStartTime' = now'
                  /\ timeRemaining' = TimeLimit
                  /\ responseTime' = 0]_vars

C28_Witness ==
  /\ lastOp.call = "next" /\ lastOp.ok /\ lastOp.page
  /\ route = "assessment"
  /\ currentQuestion # NoQuestion /\ currentQuestion = lastOp.question
  /\ now > StartOfTime
  /\ questionStartTime = now /\ timeRemaining = TimeLimit /\ responseTime = 0

\* C29: after every tick the response time is the number of whole seconds
\* elapsed since the arm timestamp and the remaining time is max(0, 120 -
\* response time); the remaining time is always within 0..120.
C29_TickRecomputes ==
  /\ [][lastOp'.op \in {"tick", "autoSubmit"} =>
          /\ responseTime' * MsPerSecond <= now' - questionStartTime'
          /\ now' - questionStartTime' < (responseTime' + 1) * MsPerSecond
          /\ timeRemaining' = Max(0, TimeLimit - responseTime')]_vars
  /\ [](timeRemaining \in 0..TimeLimit)

C29_Witness ==
  /\ lastOp.op = "tick"
  /\ (now - questionStartTime) % MsPerSecond # 0
  /\ responseTime > TimeLimit
  /\ responseTime = (now - questionStartTime) \div MsPerSecond
  /\ timeRemaining = 0

IsPrefix(h, g) == Len(h) <= Len(g) /\ \A i \in DOMAIN h : g[i] = h[i]

\* C30: between a successful start and the next reset or start the history only
\* grows by appending: after every step that is not a successful start or a
\* reset, the history before the step is a prefix of the history after it.
C30_HistoryOnlyAppends ==
  [][(/\ ~(lastOp'.op = "startAssessment" /\ lastOp'.ok)
      /\ lastOp'.op # "resetAssessment") =>
       /\ IsPrefix(responses, responses')
       /\ Len(responses') <= Len(responses) + 1]_vars

C30_Witness ==
  /\ Len(responses) = 2
  /\ lastOp.op = "uploadAudioResponse" /\ lastOp.ok
  /\ responses[1].response_text \in {Options[1], Options[2]}

\* C31: after resetAssessment or after the page was left, no tick issues a
\* submission for the abandoned session: a tick sends a respond request only
\* from the mounted page and only for a session that a start reply has
\* established since then (one that carries the id the service gave it).
C31_NoTickAfterAbandon ==
  [][lastOp'.op = "autoSubmit" =>
       /\ route = "assessment"
       /\ currentAssessment # NoSession
       /\ currentAssessment.id \in SessionIds]_vars

\* C32: the submit call of submitAssessment is sent only when the question that
\* is current at that moment has a response in the history, accepted by the
\* service: the last question of a session is not finalized unanswered.
C32_FinalizedOnlyAnswered ==
  [][CountOp(inflight', "submit") > CountOp(inflight, "submit") =>
       (currentQuestion # NoQuestion => Answered(responses, currentQuestion.id))]_vars

\* C33: the response_time of a respond request that a tick issues is the elapsed
\* time that this tick has computed, which is at least 120.
C33_TimerSendsElapsed ==
  [][lastOp'.op = "autoSubmit" =>
       \A r \in BagToSet(inflight') :
         (r.op = "respond" /\ CopiesIn(r, inflight') > CopiesIn(r, inflight)) =>
           /\ r.data.response_time = Elapsed(Cur)
           /\ r.data.response_time >= TimeLimit]_vars

\* C34: a failed submission gives the question no fresh time allowance: the step
\* in which submitResponse resolves with success=false for the page that is
\* still there leaves the question and the arm timestamp of its countdown as
\* they were, and the remaining time with them.
C34_FailureKeepsCountdown ==
  [][(/\ lastOp'.op = "submitResponse"
      /\ lastOp'.result.returned
      /\ ~lastOp'.result.success
      /\ lastOp'.page
      /\ route' = "assessment"
      /\ currentQuestion' = currentQuestion
      /\ currentQuestion # NoQuestion) =>
       /\ questionStartTime' = questionStartTime
       /\ timeRemaining' = timeRemaining]_vars

\* C35: the loading flag is up exactly while a call of startAssessment,
\* submitResponse, uploadAudioResponse, uploadWritingResponse or
\* submitAssessment is pending (every call but the two reads).
C35_LoadingWhilePending ==
  loading <=> \E r \in BagToSet(inflight) : r.op \notin Reads

\* The session has ended: there is a session object and no current question.
Ended == currentAssessment # NoSession /\ currentQuestion = NoQuestion

\* C36: completion is no dead end: when the assessment page is entered with a
\* session that has ended, a session with a current question follows.
C36_CompletionNotDeadEnd ==
  (Ended /\ route = "assessment") ~>
    (currentAssessment # NoSession /\ currentQuestion # NoQuestion)

\* C37: the session object is always well formed: a session that is not null
\* carries the id that the most recent successful start returned (a step sets
\* it only by a successful start reply, to the id of that reply, and no other
\* step makes or changes it), and there is a current question only while there
\* is a session.
C37_SessionWellFormed ==
  [][/\ currentAssessment' # NoSession =>
          IF lastOp'.op = "startAssessment" /\ lastOp'.ok
            THEN currentAssessment'.id = lastOp'.id
            ELSE /\ currentAssessment # NoSession
                 /\ currentAssessment'.id = currentAssessment.id
     /\ currentQuestion' # NoQuestion => currentAssessment' # NoSession]_vars

\* The last step handled a reply for login or register.
SignInReplied(op) == op.op \in SignIns /\ op.call # "none"

\* C38: login and register store a token, in localStorage and in the state, only
\* in the step in which /api/auth/me has accepted that token; and the step in
\* which a call of login or register fails leaves no token stored and no user.
C38_TokenOnlyAfterCheck ==
  [][/\ (\/ auth'.stored \notin {NoToken, auth.stored}
         \/ auth'.token \notin {NoToken, auth.token}) =>
          /\ SignInReplied(lastOp') /\ lastOp'.ok
          /\ lastOp'.call = lastOp'.op \o "-me"
          /\ auth'.stored = lastOp'.token
          /\ auth'.token = lastOp'.token
     /\ (SignInReplied(lastOp') /\ ~lastOp'.ok) =>
          /\ auth'.stored = NoToken
          /\ auth'.token = NoToken
          /\ auth'.user = NoUser]_vars

\* C38's case: /api/auth/me has accepted the token of a login, the token is
\* stored, and the provider checks the new token once more.
C38_Witness ==
  /\ lastOp.op = "login" /\ lastOp.call = "login-me" /\ lastOp.ok
  /\ auth.stored = lastOp.token /\ auth.token = lastOp.token
  /\ auth.user = UserOf(lastOp.token)
  /\ \E r \in BagToSet(auth.calls) : r.op = "check" /\ r.token = lastOp.token

\* C39: in every state of the auth provider a user that is not null comes with
\* a token, in the state or in localStorage.
C39_UserImpliesToken ==
  auth.user # NoUser => (auth.token # NoToken \/ auth.stored # NoToken)
====
